---- MODULE Spec2Model ----
(***************************************************************************)
(* go-esa: AttachmentService.UploadAttachmentFile.                         *)
(*                                                                         *)
(* The repository holds two builds of the same file:                       *)
(*   src/esa/attachment.go   (impl = "esa")                                *)
(*   src/unnamed/part_000    (impl = "unnamed")                            *)
(* Both are modelled; impl says which one a behaviour runs.               *)
(*                                                                         *)
(* The file system, the policy endpoint and the object-storage endpoint   *)
(* are the environment: the disk is a variable another process may write, *)
(* the two servers answer with values drawn from small sets.              *)
(***************************************************************************)
EXTENDS Naturals, Sequences, FiniteSets, TLC

\* ------------------------------------------------------------- bounds
\* number of calls to UploadAttachmentFile in one behaviour
MaxCalls == 2
\* longest file content, in bytes
MaxFileLen == 1

\* ------------------------------------------------- program constants
\* http.StatusNoContent
StatusNoContent == 204

AttchmentPolicyURL == "/attachments/policies"
PolicyBodyType == "application/x-www-form-urlencoded"
\* TeamURL is declared outside the two files, which only use it
TeamURL == "<base-team-url>"

\* ------------------------------------------------------ input domains
Impls == {"esa", "unnamed"}
\* a path is a sequence of characters; the calls a caller makes: teamName, path
Arguments ==
  { [teamName |-> "acme", path |-> <<"a">>],
    [teamName |-> "", path |-> <<"d", "/", "b">>] }
\* a byte that is text (104, 'h') and a byte that is binary (0)
Bytes == {0, 104}

RECURSIVE SeqsUpTo(_, _)
SeqsUpTo(S, n) ==
  IF n = 0 THEN { <<>> }
  ELSE LET shorter == SeqsUpTo(S, n - 1)
       IN  shorter \cup { Append(s, x) : s \in shorter, x \in S }

Contents == SeqsUpTo(Bytes, MaxFileLen)

\* what a path names on the disk
NoFile == [kind |-> "none", bytes |-> <<>>]
Directory == [kind |-> "dir", bytes |-> <<>>]
RegularFile(b) == [kind |-> "file", bytes |-> b]
DiskStates == {NoFile, Directory} \cup { RegularFile(b) : b \in Contents }

\* the status codes the object-storage endpoint answers with
Statuses == {200, 201, 204, 403}

\* ------------------------------------------------------ pure functions
\* filepath.Base on a slash-separated path
RECURSIVE StripTrailingSlashes(_)
StripTrailingSlashes(p) ==
  IF Len(p) > 0 /\ p[Len(p)] = "/"
  THEN StripTrailingSlashes(SubSeq(p, 1, Len(p) - 1))
  ELSE p

RECURSIVE LastSlash(_, _)
LastSlash(p, i) ==
  IF i = 0 THEN 0
  ELSE IF p[i] = "/" THEN i ELSE LastSlash(p, i - 1)

BaseKeepsDirectory(p) ==
  IF p = <<>> THEN <<".">> ELSE StripTrailingSlashes(p)

Base(p) ==
  IF p = <<>> THEN <<".">>
  ELSE LET q == StripTrailingSlashes(p)
           r == SubSeq(q, LastSlash(q, Len(q)) + 1, Len(q))
       IN  IF r = <<>> THEN <<"/">> ELSE r

\* os.Open and ReadAll succeed on p only if p names a regular file: p is not
\* empty, does not end in a separator, and its last element is not . or ..
CanNameFile(p) ==
  /\ p # <<>>
  /\ p[Len(p)] # "/"
  /\ Base(p) \notin {<<".">>, <<".", ".">>}

\* http.DetectContentType, on contents over Bytes: no signature of the sniffing
\* table matches, so the result is text/plain unless a binary byte occurs
IsBinaryByte(b) == b <= 8 \/ b = 11 \/ (b >= 14 /\ b <= 26) \/ (b >= 28 /\ b <= 31)

DetectContentType(b) ==
  IF \E i \in 1..Len(b) : IsBinaryByte(b[i])
  THEN "application/octet-stream"
  ELSE "text/plain; charset=utf-8"

\* fmt.Sprint of a non-negative int: its decimal digits
Digit(d) == <<"0", "1", "2", "3", "4", "5", "6", "7", "8", "9">>[d + 1]

RECURSIVE Sprint(_)
Sprint(n) ==
  IF n < 10 THEN <<Digit(n)>>
  ELSE Append(Sprint(n \div 10), Digit(n % 10))

\* the number a decimal string denotes (what the policy endpoint reads)
DigitValue(c) == CHOOSE d \in 0..9 : Digit(d) = c

RECURSIVE Atoi(_)
Atoi(s) ==
  IF s = <<>> THEN 0
  ELSE 10 * Atoi(SubSeq(s, 1, Len(s) - 1)) + DigitValue(s[Len(s)])

\* the url.Values getFileInfo builds from the bytes it read
FileInfoValues(p, b) ==
  [type |-> DetectContentType(b), name |-> Base(p), size |-> Sprint(Len(b))]

\* url.Values.Encode: the pairs sorted by key
Encode(v) == << <<"name", v.name>>, <<"size", v.size>>, <<"type", v.type>> >>

\* http.StatusText for the codes of Statuses
StatusText(code) ==
  CASE code = 200 -> "OK"
    [] code = 201 -> "Created"
    [] code = 204 -> "No Content"
    [] code = 403 -> "Forbidden"
    [] OTHER -> ""

\* ------------------------------------------------- the policy response
\* AttachmentValue
Attachments ==
  { [endpoint |-> "http://x/ep", url |-> "http://x/pub/hello.txt"],
    [endpoint |-> "", url |-> ""] }

\* FormValue; the service sets key afresh for every policy it issues
Forms ==
  { [AWSAccessKeyId |-> "AKIA", signature |-> "sig", policy |-> "pol", key |-> "",
     ContentType |-> "text/plain", CacheControl |-> "max-age=1",
     ContentDisposition |-> "inline", acl |-> "public-read"],
    [AWSAccessKeyId |-> "", signature |-> "", policy |-> "", key |-> "",
     ContentType |-> "", CacheControl |-> "", ContentDisposition |-> "", acl |-> ""] }

KeyOf(n) == "key-" \o ToString(n)

\* AttachmentPolicyResponse, zero-valued (var attachmentPolicyRes)
NoPolicy ==
  [attachment |-> [endpoint |-> "", url |-> ""],
   form |-> [AWSAccessKeyId |-> "", signature |-> "", policy |-> "", key |-> "",
             ContentType |-> "", CacheControl |-> "", ContentDisposition |-> "",
             acl |-> ""]]

\* ------------------------------------------------------------- errors
Nil == [kind |-> "nil"]
\* an error of the file system, of the HTTP client or of the multipart writer
RawErr(text) == [kind |-> "raw", text |-> text]

\* ------------------------------------------------------ multipart body
Field(n, v) == [kind |-> "field", name |-> n, value |-> v]
FilePart(n, fname, b) == [kind |-> "file", name |-> n, filename |-> fname, content |-> b]

\* the eight w.WriteField calls, in the order of the source
WriteFieldsAclEarly(form) ==
  << Field("AWSAccessKeyId", form.AWSAccessKeyId),
     Field("signature", form.signature),
     Field("policy", form.policy),
     Field("key", form.key),
     Field("acl", form.acl),
     Field("Content-Type", form.ContentType),
     Field("Cache-Control", form.CacheControl),
     Field("Content-Disposition", form.ContentDisposition) >>

WriteFieldsDefaultType(form) ==
  << Field("AWSAccessKeyId", form.AWSAccessKeyId),
     Field("signature", form.signature),
     Field("policy", form.policy),
     Field("key", form.key),
     Field("Content-Type",
           IF form.ContentType = "" THEN "application/octet-stream" ELSE form.ContentType),
     Field("Cache-Control", form.CacheControl),
     Field("Content-Disposition", form.ContentDisposition),
     Field("acl", form.acl) >>

WriteFields(form) ==
  << Field("AWSAccessKeyId", form.AWSAccessKeyId),
     Field("signature", form.signature),
     Field("policy", form.policy),
     Field("key", form.key),
     Field("Content-Type", form.ContentType),
     Field("Cache-Control", form.CacheControl),
     Field("Content-Disposition", form.ContentDisposition),
     Field("acl", form.acl) >>

\* multipart.NewWriter on an empty buffer
NoWriter == [made |-> FALSE, parts |-> <<>>, closed |-> FALSE]
NewWriter == [made |-> TRUE, parts |-> <<>>, closed |-> FALSE]

\* what each build returns for a failure of each step: part_000 wraps the
\* underlying error with fmt.Errorf, attachment.go returns it as it is
Wrapped(stage, e) == [kind |-> "wrapped", stage |-> stage, cause |-> e]

ErrGetFileInfo(i, p, e) ==
  IF i = "unnamed"
  THEN [kind |-> "wrapped", stage |-> "getFileInfo Failed", path |-> p, cause |-> e]
  ELSE e

ErrPolicySwallowed(i, v, e) == Nil

ErrPolicy(i, v, e) ==
  IF i = "unnamed"
  THEN [kind |-> "wrapped", stage |-> "postAttachmentPolicy Failed", values |-> v,
        cause |-> e]
  ELSE e

ErrCreateFormFile(i, e) ==
  IF i = "unnamed" THEN Wrapped("CreateFormFile Failed", e) ELSE e

ErrCopy(i, e) ==
  IF i = "unnamed" THEN Wrapped("Copy Failed", e) ELSE e

ErrPost(i, endpoint, e) ==
  IF i = "unnamed"
  THEN [kind |-> "wrapped", stage |-> "Post Failed", endpoint |-> endpoint, cause |-> e]
  ELSE e

ErrStatus(i, code) ==
  IF i = "unnamed"
  THEN Wrapped("HTTP status is not http.StatusNoContent", RawErr(StatusText(code)))
  ELSE RawErr(StatusText(code))

\* --------------------------------------------------------------- state
\* goroutines that may call UploadAttachmentFile on the one AttachmentService
Goroutines == {1, 2}
\* the goroutine of a caller that uploads one file after another
Sequential == {1}

VARIABLES
  impl,      \* which of the two builds runs
  pc,        \* where each goroutine's call stands
  ncalls,    \* calls each goroutine has made so far
  team,      \* argument teamName
  path,      \* argument path
  file,      \* what path names on the disk, now
  handles,   \* the *os.File values of the call that are open
  data,      \* the bytes getFileInfo read
  values,    \* the url.Values getFileInfo returned
  policy,    \* the *AttachmentPolicyResponse of the call
  w,         \* the multipart writer and the buffer it writes to
  res,       \* the *http.Response of the upload POST
  result,    \* the string the call returned
  err,       \* the error the call returned
  policyReq, \* the requests the call sent to the policy endpoint
  issued,    \* the policy response the policy endpoint gave the call
  upload,    \* the POSTs the call sent to the object-storage endpoint
  failedAt,  \* the step whose failure made the call return
  serial,    \* policies the service has issued so far
  usedKeys   \* the key field of every upload POST sent so far, in order

frame == <<team, path, data, values, policy>>
wire == <<policyReq, issued, upload, serial, usedKeys>>
vars == <<impl, pc, ncalls, team, path, file, handles, data, values, policy, w, res,
          result, err, policyReq, issued, upload, failedAt, serial, usedKeys>>

NoValues == [type |-> "", name |-> <<>>, size |-> <<>>]
NoResponse == [status |-> 0, body |-> "none", unread |-> FALSE]

Terminal == {"done", "failed"}

Init ==
  /\ impl \in Impls
  /\ pc = [g \in Goroutines |-> "idle"]
  /\ ncalls = [g \in Goroutines |-> 0]
  /\ team = [g \in Goroutines |-> ""]
  /\ path = [g \in Goroutines |-> <<>>]
  /\ file = [g \in Goroutines |-> NoFile]
  /\ handles = [g \in Goroutines |-> {}]
  /\ data = [g \in Goroutines |-> <<>>]
  /\ values = [g \in Goroutines |-> NoValues]
  /\ policy = [g \in Goroutines |-> NoPolicy]
  /\ w = [g \in Goroutines |-> NoWriter]
  /\ res = [g \in Goroutines |-> NoResponse]
  /\ result = [g \in Goroutines |-> ""]
  /\ err = [g \in Goroutines |-> Nil]
  /\ policyReq = [g \in Goroutines |-> <<>>]
  /\ issued = [g \in Goroutines |-> NoPolicy]
  /\ upload = [g \in Goroutines |-> <<>>]
  /\ failedAt = [g \in Goroutines |-> "none"]
  /\ serial = 0
  /\ usedKeys = <<>>

\* ------------------------------------------------------------- return
\* what runs when UploadAttachmentFile returns (url, e): the deferred calls
\* registered so far (f.Close in attachment.go, w.Close in part_000,
\* res.Body.Close in both), then the caller has the two results
DeferredClose(i, wr) ==
  IF i = "unnamed" /\ wr.made THEN [wr EXCEPT !.closed = TRUE] ELSE wr

ReturnKeepsHandles(g, url, e, step) ==
  /\ pc' = [pc EXCEPT ![g] = IF e = Nil THEN "done" ELSE "failed"]
  /\ result' = [result EXCEPT ![g] = url]
  /\ err' = [err EXCEPT ![g] = e]
  /\ failedAt' = [failedAt EXCEPT ![g] = step]
  /\ handles' = handles
  /\ w' = [w EXCEPT ![g] = DeferredClose(impl, w[g])]
  /\ res' = [res EXCEPT ![g] =
               IF res[g].body = "open" THEN [res[g] EXCEPT !.body = "closed"] ELSE res[g]]

Return(g, url, e, step) ==
  /\ pc' = [pc EXCEPT ![g] = IF e = Nil THEN "done" ELSE "failed"]
  /\ result' = [result EXCEPT ![g] = url]
  /\ err' = [err EXCEPT ![g] = e]
  /\ failedAt' = [failedAt EXCEPT ![g] = step]
  /\ handles' = [handles EXCEPT ![g] = {}]
  /\ w' = [w EXCEPT ![g] = DeferredClose(impl, w[g])]
  /\ res' = [res EXCEPT ![g] =
               IF res[g].body = "open" THEN [res[g] EXCEPT !.body = "closed"] ELSE res[g]]

\* ------------------------------------------------------------ actions
\* the caller invokes UploadAttachmentFile(t, p); f is what p names on the disk
Call(g, t, p, f) ==
  /\ pc[g] \in {"idle"} \cup Terminal
  /\ f.kind = "file" => CanNameFile(p)
  /\ ncalls[g] < MaxCalls
  /\ pc' = [pc EXCEPT ![g] = "start"]
  /\ ncalls' = [ncalls EXCEPT ![g] = @ + 1]
  /\ team' = [team EXCEPT ![g] = t]
  /\ path' = [path EXCEPT ![g] = p]
  /\ file' = [file EXCEPT ![g] = f]
  /\ handles' = [handles EXCEPT ![g] = {}]
  /\ data' = [data EXCEPT ![g] = <<>>]
  /\ values' = [values EXCEPT ![g] = NoValues]
  /\ policy' = [policy EXCEPT ![g] = NoPolicy]
  /\ w' = [w EXCEPT ![g] = NoWriter]
  /\ res' = [res EXCEPT ![g] = NoResponse]
  /\ result' = [result EXCEPT ![g] = ""]
  /\ err' = [err EXCEPT ![g] = Nil]
  /\ policyReq' = [policyReq EXCEPT ![g] = <<>>]
  /\ issued' = [issued EXCEPT ![g] = NoPolicy]
  /\ upload' = [upload EXCEPT ![g] = <<>>]
  /\ failedAt' = [failedAt EXCEPT ![g] = "none"]
  /\ UNCHANGED <<impl, serial, usedKeys>>

\* another process writes, removes or replaces the file while a call runs; an
\* open handle keeps its file, so under one only the bytes change
FileChange(g, f) ==
  /\ pc[g] \notin {"idle"} \cup Terminal
  /\ f # file[g]
  /\ f.kind = "file" => CanNameFile(path[g])
  /\ handles[g] # {} => (f.kind = "file" /\ file[g].kind = "file")
  /\ file' = [file EXCEPT ![g] = f]
  /\ UNCHANGED <<impl, pc, ncalls, handles, w, res, result, err, failedAt>>
  /\ UNCHANGED <<frame, wire>>

\* getFileInfo: os.Open(path)
OpenFile(g) ==
  /\ pc[g] = "start"
  /\ IF file[g].kind = "none"
     THEN /\ Return(g, "", ErrGetFileInfo(impl, path[g], RawErr("ENOENT")), "open")
     ELSE /\ pc' = [pc EXCEPT ![g] = "opened"]
          /\ handles' = [handles EXCEPT ![g] = {"getFileInfo"}]
          /\ UNCHANGED <<w, res, result, err, failedAt>>
  /\ UNCHANGED <<impl, ncalls, file>>
  /\ UNCHANGED <<frame, wire>>

\* getFileInfo: ioutil.ReadAll(f), the url.Values, and the deferred f.Close
ReadFile(g) ==
  /\ pc[g] = "opened"
  /\ IF file[g].kind = "file"
     THEN /\ data' = [data EXCEPT ![g] = file[g].bytes]
          /\ values' = [values EXCEPT ![g] = FileInfoValues(path[g], file[g].bytes)]
          /\ pc' = [pc EXCEPT ![g] = "inspected"]
          /\ handles' = [handles EXCEPT ![g] = {}]
          /\ UNCHANGED <<w, res, result, err, failedAt>>
     ELSE /\ Return(g, "", ErrGetFileInfo(impl, path[g], RawErr("EISDIR")), "read")
          /\ UNCHANGED <<data, values>>
  /\ UNCHANGED <<impl, ncalls, file, team, path, policy>>
  /\ UNCHANGED wire

\* postAttachmentPolicy: the request a.client.post sends
PolicyRequest(t, v) ==
  [url |-> <<TeamURL, "/", t, AttchmentPolicyURL>>, bodyType |-> PolicyBodyType,
   body |-> Encode(v)]

SendPolicyRequestBeforeRead(g) ==
  /\ pc[g] = "opened"
  /\ policyReq' = [policyReq EXCEPT ![g] = Append(@, PolicyRequest(team[g], values[g]))]
  /\ pc' = [pc EXCEPT ![g] = "policyWait"]
  /\ UNCHANGED <<impl, ncalls, file, handles, w, res, result, err, failedAt>>
  /\ UNCHANGED <<frame, issued, upload, serial, usedKeys>>

SendPolicyRequest(g) ==
  /\ pc[g] = "inspected"
  /\ policyReq' = [policyReq EXCEPT ![g] = Append(@, PolicyRequest(team[g], values[g]))]
  /\ pc' = [pc EXCEPT ![g] = "policyWait"]
  /\ UNCHANGED <<impl, ncalls, file, handles, w, res, result, err, failedAt>>
  /\ UNCHANGED <<frame, issued, upload, serial, usedKeys>>

\* the policy endpoint answers 2xx with a JSON body that a.client.post decodes
PolicyIssuedShared(g, a, f) ==
  /\ pc[g] = "policyWait"
  /\ LET p == [attachment |-> a, form |-> [f EXCEPT !.key = KeyOf(serial + 1)]]
     IN  /\ policy' = [h \in Goroutines |-> p]
         /\ issued' = [issued EXCEPT ![g] = p]
  /\ serial' = serial + 1
  /\ pc' = [pc EXCEPT ![g] = "policyOK"]
  /\ UNCHANGED <<impl, ncalls, file, handles, w, res, result, err, failedAt>>
  /\ UNCHANGED <<team, path, data, values, policyReq, upload, usedKeys>>

PolicyIssued(g, a, f) ==
  /\ pc[g] = "policyWait"
  /\ LET p == [attachment |-> a, form |-> [f EXCEPT !.key = KeyOf(serial + 1)]]
     IN  /\ policy' = [policy EXCEPT ![g] = p]
         /\ issued' = [issued EXCEPT ![g] = p]
  /\ serial' = serial + 1
  /\ pc' = [pc EXCEPT ![g] = "policyOK"]
  /\ UNCHANGED <<impl, ncalls, file, handles, w, res, result, err, failedAt>>
  /\ UNCHANGED <<team, path, data, values, policyReq, upload, usedKeys>>

\* a.client.post fails: transport error, non-success status or malformed JSON
PolicyErrors == {"transport", "status", "json"}

PolicyFailedRetry(g, cause) ==
  /\ pc[g] = "policyWait"
  /\ pc' = [pc EXCEPT ![g] = "inspected"]
  /\ UNCHANGED <<impl, ncalls, file, handles, w, res, result, err, failedAt>>
  /\ UNCHANGED <<frame, wire>>

PolicyFailed(g, cause) ==
  /\ pc[g] = "policyWait"
  /\ Return(g, "", ErrPolicy(impl, values[g], RawErr(cause)), "policy")
  /\ UNCHANGED <<impl, ncalls, file>>
  /\ UNCHANGED <<frame, wire>>

\* attachment.go only: the second os.Open(path), closed when the call returns
ReopenFile(g) ==
  /\ impl = "esa"
  /\ pc[g] = "policyOK"
  /\ IF file[g].kind = "none"
     THEN /\ Return(g, "", RawErr("ENOENT"), "reopen")
     ELSE /\ pc' = [pc EXCEPT ![g] = "reopened"]
          /\ handles' = [handles EXCEPT ![g] = {"UploadAttachmentFile"}]
          /\ UNCHANGED <<w, res, result, err, failedAt>>
  /\ UNCHANGED <<impl, ncalls, file>>
  /\ UNCHANGED <<frame, wire>>

\* multipart.NewWriter and the eight w.WriteField calls; the buffer is a
\* bytes.Buffer and the calls' results are not looked at
WriteFormFields(g) ==
  /\ pc[g] = IF impl = "esa" THEN "reopened" ELSE "policyOK"
  /\ w' = [w EXCEPT ![g] = [NewWriter EXCEPT !.parts = WriteFields(policy[g].form)]]
  /\ pc' = [pc EXCEPT ![g] = "fields"]
  /\ UNCHANGED <<impl, ncalls, file, handles, res, result, err, failedAt>>
  /\ UNCHANGED <<frame, wire>>

\* w.CreateFormFile("file", filepath.Base(path))
CreateFormFile(g, ok) ==
  /\ pc[g] = "fields"
  /\ IF ok
     THEN /\ w' = [w EXCEPT ![g].parts = Append(@, FilePart("file", Base(path[g]), <<>>))]
          /\ pc' = [pc EXCEPT ![g] = "filepart"]
          /\ UNCHANGED <<handles, res, result, err, failedAt>>
     ELSE /\ Return(g, "", ErrCreateFormFile(impl, RawErr("write")), "createFormFile")
  /\ UNCHANGED <<impl, ncalls, file>>
  /\ UNCHANGED <<frame, wire>>

\* what io.Copy reads: part_000 copies the bytes getFileInfo read,
\* attachment.go reads the file again through the handle it reopened
CopySource(i, d, f) == IF i = "esa" THEN f.bytes ELSE d

CopyFile(g, ok) ==
  /\ pc[g] = "filepart"
  /\ IF ok /\ (impl = "esa" => file[g].kind = "file")
     THEN /\ w' = [w EXCEPT ![g].parts[Len(w[g].parts)].content =
                     CopySource(impl, data[g], file[g])]
          /\ pc' = [pc EXCEPT ![g] = "copied"]
          /\ UNCHANGED <<handles, res, result, err, failedAt>>
     ELSE /\ Return(g, "", ErrCopy(impl, RawErr(IF ok THEN "EISDIR" ELSE "write")), "copy")
  /\ UNCHANGED <<impl, ncalls, file>>
  /\ UNCHANGED <<frame, wire>>

\* attachment.go only: err = w.Close() before the POST
CloseWriter(g, ok) ==
  /\ impl = "esa"
  /\ pc[g] = "copied"
  /\ IF ok
     THEN /\ w' = [w EXCEPT ![g].closed = TRUE]
          /\ pc' = [pc EXCEPT ![g] = "finalized"]
          /\ UNCHANGED <<handles, res, result, err, failedAt>>
     ELSE /\ Return(g, "", RawErr("write"), "close")
  /\ UNCHANGED <<impl, ncalls, file>>
  /\ UNCHANGED <<frame, wire>>

\* a.client.Client.Post(policy.Attachment.Endpoint, w.FormDataContentType(), buffer):
\* the request carries what the buffer holds when Post is called
UploadRequest(p, wr) ==
  [endpoint |-> p.attachment.endpoint, contentType |-> "multipart/form-data",
   parts |-> wr.parts, closed |-> wr.closed]

KeyOfBody(parts) ==
  LET i == CHOOSE j \in 1..Len(parts) : parts[j].name = "key" IN parts[i].value

SendUpload(g) ==
  /\ pc[g] = IF impl = "esa" THEN "finalized" ELSE "copied"
  /\ LET req == UploadRequest(policy[g], w[g])
     IN  /\ upload' = [upload EXCEPT ![g] = Append(@, req)]
         /\ usedKeys' = Append(usedKeys, KeyOfBody(req.parts))
  /\ pc' = [pc EXCEPT ![g] = "postWait"]
  /\ UNCHANGED <<impl, ncalls, file, handles, w, res, result, err, failedAt>>
  /\ UNCHANGED <<frame, policyReq, issued, serial>>

\* Post returns an error: no response
UploadFailedRetry(g) ==
  /\ pc[g] = "postWait"
  /\ pc' = [pc EXCEPT ![g] = IF impl = "esa" THEN "finalized" ELSE "copied"]
  /\ UNCHANGED <<impl, ncalls, file, handles, w, res, result, err, failedAt>>
  /\ UNCHANGED <<frame, wire>>

UploadFailed(g) ==
  /\ pc[g] = "postWait"
  /\ Return(g, "", ErrPost(impl, policy[g].attachment.endpoint, RawErr("transport")), "post")
  /\ UNCHANGED <<impl, ncalls, file>>
  /\ UNCHANGED <<frame, wire>>

\* Post returns a response with status s; its body is open
\* whether the response to the upload POST comes with body bytes: 204 and the
\* plain 200 have none, 201 and 403 bring a document
HasBody(s) == s \in {201, 403}

\* Post returns a response: its status, and its body, open and not read
UploadAnswered(g, s) ==
  /\ pc[g] = "postWait"
  /\ res' = [res EXCEPT ![g] = [status |-> s, body |-> "open", unread |-> HasBody(s)]]
  /\ pc' = [pc EXCEPT ![g] = "responded"]
  /\ UNCHANGED <<impl, ncalls, file, handles, w, result, err, failedAt>>
  /\ UNCHANGED <<frame, wire>>

\* the status check and the return that follows it
AcceptsAny2xx(code) == code >= 200 /\ code <= 299

Accepts(code) == code = StatusNoContent

CheckStatusAsksAgain(g) ==
  /\ pc[g] = "responded"
  /\ IF Accepts(res[g].status)
     THEN /\ Return(g, policy[g].attachment.url, Nil, "none")
          /\ UNCHANGED <<frame, wire>>
     ELSE /\ pc' = [pc EXCEPT ![g] = "inspected"]
          /\ policyReq' = [policyReq EXCEPT ![g] = <<>>]
          /\ upload' = [upload EXCEPT ![g] = <<>>]
          /\ UNCHANGED <<handles, w, res, result, err, failedAt>>
          /\ UNCHANGED <<frame, issued, serial, usedKeys>>
  /\ UNCHANGED <<impl, ncalls, file>>

CheckStatusWaitsForNoContent(g) ==
  /\ pc[g] = "responded"
  /\ IF Accepts(res[g].status)
     THEN Return(g, policy[g].attachment.url, Nil, "none")
     ELSE /\ pc' = [pc EXCEPT ![g] = "postWait"]
          /\ res' = [res EXCEPT ![g] = NoResponse]
          /\ UNCHANGED <<handles, w, result, err, failedAt>>
  /\ UNCHANGED <<impl, ncalls, file>>
  /\ UNCHANGED <<frame, wire>>

CheckStatus(g) ==
  /\ pc[g] = "responded"
  /\ IF Accepts(res[g].status)
     THEN Return(g, policy[g].attachment.url, Nil, "none")
     ELSE Return(g, "", ErrStatus(impl, res[g].status), "status")
  /\ UNCHANGED <<impl, ncalls, file>>
  /\ UNCHANGED <<frame, wire>>

\* -------------------------------------------------------- specification
\* the steps of a call that is under way
Advance(g) ==
  \/ OpenFile(g)
  \/ ReadFile(g)
  \/ SendPolicyRequest(g)
  \/ \E a \in Attachments, f \in Forms : PolicyIssued(g, a, f)
  \/ \E cause \in PolicyErrors : PolicyFailed(g, cause)
  \/ ReopenFile(g)
  \/ WriteFormFields(g)
  \/ \E ok \in BOOLEAN : CreateFormFile(g, ok)
  \/ \E ok \in BOOLEAN : CopyFile(g, ok)
  \/ \E ok \in BOOLEAN : CloseWriter(g, ok)
  \/ SendUpload(g)
  \/ UploadFailed(g)
  \/ \E s \in Statuses : UploadAnswered(g, s)
  \/ CheckStatus(g)

\* the steps of a call that is under way, and of the disk under it
Run(g) ==
  \/ \E f \in DiskStates : FileChange(g, f)
  \/ Advance(g)

Step(g) ==
  \/ \E a \in Arguments, f \in DiskStates : Call(g, a.teamName, a.path, f)
  \/ Run(g)

\* one caller, one upload after another
Next == \E g \in Sequential : Step(g)

Spec == Init /\ [][Next]_vars

\* one call, over paths with directories, doubled and trailing separators
PathsOfFiles ==
  { <<"a">>, <<"d", "/", "b">>, <<"/", "a">>, <<"d", "/", "/", "b">>,
    <<".", "/", "a">>, <<"a", "/">>, <<"/">>, <<".">>, <<>> }

FirstCall(g, p) ==
  /\ ncalls[g] = 0
  /\ \E f \in DiskStates : Call(g, "acme", p, f)

NextPaths ==
  \E g \in Sequential :
    \/ \E p \in PathsOfFiles : FirstCall(g, p)
    \/ Run(g)

SpecPaths == Init /\ [][NextPaths]_vars

\* two callers of the one AttachmentService, one call each, for different
\* files, and while the two calls run no other process touches them
ConcurrentFiles == {NoFile, RegularFile(<<104>>), RegularFile(<<0, 104>>)}

ConcurrentCall(g, t, p) ==
  /\ ncalls[g] = 0
  /\ \A h \in Goroutines \ {g} : ncalls[h] > 0 => path[h] # p
  /\ \E f \in ConcurrentFiles : Call(g, t, p, f)

NextConcurrent ==
  \E g \in Goroutines :
    \/ \E a \in Arguments : ConcurrentCall(g, a.teamName, a.path)
    \/ Advance(g)

SpecConcurrent == Init /\ [][NextConcurrent]_vars

\* one call whose steps are taken sooner or later: the file read and the two
\* network calls return, with a result or with an error
SpecLive == Init /\ [][NextPaths]_vars /\ \A g \in Sequential : WF_vars(Advance(g))

\* ----------------------------------------------------------- claims
Returned(g) == pc[g] \in Terminal
Answered(g) == res[g].body # "none"
PolicyRequestsOf(g) == Len(policyReq[g])
UploadsOf(g) == Len(upload[g])
FileWasRead(g) == values[g] # NoValues
PolicyWasParsed(g) == issued[g] # NoPolicy

\* C1: a call returns (policy.Attachment.Url as the policy endpoint sent it, nil)
\* exactly when the upload POST was answered with status 204; for every other
\* status it returns an error and the empty string.
C1_UrlIffNoContent ==
  \A g \in Goroutines :
    Returned(g) =>
      /\ (err[g] = Nil) <=> (Answered(g) /\ res[g].status = 204)
      /\ err[g] = Nil => result[g] = issued[g].attachment.url
      /\ (Answered(g) /\ res[g].status # 204) => (err[g] # Nil /\ result[g] = "")

C1_Witness ==
  \E g \in Goroutines :
    /\ pc[g] = "done"
    /\ res[g].status = 204
    /\ result[g] = "http://x/pub/hello.txt"

\* C2: within one call the policy request is sent only after the file has been
\* read successfully, and the upload POST only after the policy request has
\* succeeded and its response has been parsed.
C2_StepsInOrder ==
  \A g \in Goroutines :
    /\ PolicyRequestsOf(g) > 0 => FileWasRead(g)
    /\ UploadsOf(g) > 0 => (PolicyRequestsOf(g) > 0 /\ PolicyWasParsed(g))

C2_Witness ==
  \E g \in Goroutines :
    /\ pc[g] = "postWait"
    /\ UploadsOf(g) = 1 /\ PolicyRequestsOf(g) = 1
    /\ FileWasRead(g) /\ PolicyWasParsed(g)

\* C3: a failed step ends the call: after a failure of the file read no policy
\* request and no upload POST has been sent, after a failure of the policy
\* request or of the multipart body no upload POST has been sent; the call
\* returns a non-nil error with the empty string, and no failure ends in success.
FileSteps == {"open", "read"}
BodySteps == {"reopen", "createFormFile", "copy", "close"}

C3_FailureShortCircuits ==
  \A g \in Goroutines :
    /\ failedAt[g] # "none" => (pc[g] = "failed" /\ err[g] # Nil /\ result[g] = "")
    /\ pc[g] = "failed" => (failedAt[g] # "none" /\ err[g] # Nil /\ result[g] = "")
    /\ failedAt[g] \in FileSteps => (PolicyRequestsOf(g) = 0 /\ UploadsOf(g) = 0)
    /\ failedAt[g] = "policy" => UploadsOf(g) = 0
    /\ failedAt[g] \in BodySteps => UploadsOf(g) = 0

C3_Witness ==
  \E g \in Goroutines :
    /\ pc[g] = "failed"
    /\ failedAt[g] = "copy"
    /\ PolicyRequestsOf(g) = 1
    /\ UploadsOf(g) = 0

\* C4: one call sends at most one policy request and at most one upload POST,
\* whatever the file system and the two endpoints answer.
C4_NoRetry ==
  \A g \in Goroutines : PolicyRequestsOf(g) <= 1 /\ UploadsOf(g) <= 1

C4_Witness ==
  \E g \in Goroutines :
    /\ pc[g] = "failed"
    /\ failedAt[g] = "status"
    /\ res[g].status = 403
    /\ PolicyRequestsOf(g) = 1 /\ UploadsOf(g) = 1

\* the value of a key in an encoded form body
FormValueOf(body, key) ==
  LET i == CHOOSE j \in 1..Len(body) : body[j][1] = key IN body[i][2]

\* the file part of a multipart body
FilePartOf(parts) ==
  LET i == CHOOSE j \in 1..Len(parts) : parts[j].kind = "file" IN parts[i]

SizeSent(g) == Atoi(FormValueOf(policyReq[g][1].body, "size"))
ContentSent(g) == FilePartOf(upload[g][1].parts).content

\* C5: the size reported to the policy endpoint equals the byte length of the
\* content carried in the file part of the upload POST of the same call, also
\* when another process changes the file between the steps of the call.
C5_SizeIsUploadedLength ==
  \A g \in Goroutines : UploadsOf(g) > 0 => SizeSent(g) = Len(ContentSent(g))

\* what holds of C5: the build that reads the file once (part_000) keeps it
C5_HoldsReadingOnce ==
  \A g \in Goroutines :
    (impl = "unnamed" /\ UploadsOf(g) > 0) => SizeSent(g) = Len(ContentSent(g))

\* C6: every call that reaches the upload has sent its own policy request, its
\* upload POST carries the endpoint and the form fields of the policy that
\* request returned, and no policy is carried by more than one upload POST.
C6_FreshPolicyPerUpload ==
  /\ \A g \in Goroutines :
       UploadsOf(g) > 0 =>
         /\ PolicyRequestsOf(g) = 1
         /\ PolicyWasParsed(g)
         /\ upload[g][1].endpoint = issued[g].attachment.endpoint
         /\ SubSeq(upload[g][1].parts, 1, 8) = WriteFields(issued[g].form)
  /\ \A i, j \in 1..Len(usedKeys) : i # j => usedKeys[i] # usedKeys[j]

C6_Witness ==
  \E g \in Goroutines :
    /\ ncalls[g] = 2
    /\ pc[g] = "done"
    /\ Len(usedKeys) = 2
    /\ KeyOfBody(upload[g][1].parts) = usedKeys[2]

\* ------------------------------------------------- what an error says
Has(e, f) == f \in DOMAIN e

\* the stage an error names, if it names one
StageNamed(e) ==
  IF ~Has(e, "stage") THEN "none"
  ELSE CASE e.stage = "getFileInfo Failed" -> "file inspection"
         [] e.stage = "postAttachmentPolicy Failed" -> "policy request"
         [] e.stage \in {"CreateFormFile Failed", "Copy Failed", "Post Failed",
                         "HTTP status is not http.StatusNoContent"} -> "object upload"
         [] OTHER -> "none"

\* the stage a step belongs to
StageOfStep(step) ==
  CASE step \in FileSteps -> "file inspection"
    [] step = "policy" -> "policy request"
    [] OTHER -> "object upload"

\* the underlying error an error wraps, or is
Underlying(e) == IF Has(e, "cause") THEN e.cause ELSE e

CarriesInput(g) ==
  CASE StageOfStep(failedAt[g]) = "file inspection" ->
         Has(err[g], "path") /\ err[g].path = path[g]
    [] StageOfStep(failedAt[g]) = "policy request" ->
         Has(err[g], "team") /\ err[g].team = team[g]
    [] OTHER ->
         Has(err[g], "endpoint") /\ err[g].endpoint = policy[g].attachment.endpoint

\* C7: every call returns either a non-empty URL with a nil error, or one error
\* with the empty string; the error names the stage that failed and carries the
\* input of that stage (path, team, endpoint).
C7_UrlOrErrorOfStage ==
  \A g \in Goroutines :
    Returned(g) =>
      \/ err[g] = Nil /\ result[g] # ""
      \/ /\ err[g] # Nil /\ result[g] = ""
         /\ StageNamed(err[g]) = StageOfStep(failedAt[g])
         /\ CarriesInput(g)

\* C8: the error of a failed policy request carries the team identifier and
\* the request values, wrapped around the underlying error.
C8_PolicyErrorCarriesTeamAndValues ==
  \A g \in Goroutines :
    failedAt[g] = "policy" =>
      /\ Has(err[g], "team") /\ err[g].team = team[g]
      /\ Has(err[g], "values") /\ err[g].values = values[g]
      /\ Has(err[g], "cause") /\ err[g].cause.text \in PolicyErrors

\* C9: the error of an upload POST answered with a status other than 204
\* describes the endpoint and the status text; the error of a POST that failed
\* at transport level wraps the network error and names the endpoint.
C9_UploadErrorCarriesEndpoint ==
  \A g \in Goroutines :
    /\ failedAt[g] = "status" =>
         /\ Underlying(err[g]).text = StatusText(res[g].status)
         /\ Has(err[g], "endpoint") /\ err[g].endpoint = policy[g].attachment.endpoint
    /\ failedAt[g] = "post" =>
         /\ Has(err[g], "cause") /\ err[g].cause.text = "transport"
         /\ Has(err[g], "endpoint") /\ err[g].endpoint = policy[g].attachment.endpoint

\* ------------------------------------------- the state machine of a call
StateOf(p) ==
  CASE p = "idle" -> "NotCalled"
    [] p = "start" -> "Start"
    [] p \in {"opened", "inspected"} -> "Inspecting"
    [] p = "policyWait" -> "PolicyRequested"
    [] p = "done" -> "Done"
    [] p = "failed" -> "Failed"
    [] OTHER -> "Uploading"

NonTerminal == {"Start", "Inspecting", "PolicyRequested", "Uploading"}

Successor(s) ==
  CASE s = "Start" -> "Inspecting"
    [] s = "Inspecting" -> "PolicyRequested"
    [] s = "PolicyRequested" -> "Uploading"
    [] s = "Uploading" -> "Done"
    [] OTHER -> "none"

LinearStep(g) ==
  LET s == StateOf(pc[g])
      t == StateOf(pc'[g])
  IN  IF ncalls'[g] # ncalls[g]
      THEN \* the caller makes its next call: the call before it is over
           s \notin NonTerminal /\ t = "Start"
      ELSE /\ \/ s = t
              \/ t = Successor(s)
              \/ s \in NonTerminal /\ t = "Failed"
           /\ s \in {"Done", "Failed"} =>
                (pc'[g] = pc[g] /\ result'[g] = result[g] /\ err'[g] = err[g])

\* C10: a call moves along Start -> Inspecting -> PolicyRequested -> Uploading
\* -> Done: every step stays in its state, advances to the next one or goes to
\* Failed; Done and Failed are left by no step of the call; Failed is entered
\* from each of the four non-terminal states.
C10_LinearStateMachine == [][\A g \in Goroutines : LinearStep(g)]_vars

FailedFrom(g) ==
  CASE failedAt[g] = "open" -> "Start"
    [] failedAt[g] = "read" -> "Inspecting"
    [] failedAt[g] = "policy" -> "PolicyRequested"
    [] failedAt[g] = "none" -> "none"
    [] OTHER -> "Uploading"

C10_Witness ==
  \E g \in Goroutines : pc[g] = "failed" /\ FailedFrom(g) = "Start"

C10_FailedFromInspecting ==
  \E g \in Goroutines : pc[g] = "failed" /\ FailedFrom(g) = "Inspecting"

C10_FailedFromPolicyRequested ==
  \E g \in Goroutines : pc[g] = "failed" /\ FailedFrom(g) = "PolicyRequested"

C10_FailedFromUploading ==
  \E g \in Goroutines : pc[g] = "failed" /\ FailedFrom(g) = "Uploading"

\* --------------------------------------------- the body of the upload POST
PartNames ==
  <<"AWSAccessKeyId", "signature", "policy", "key", "Content-Type", "Cache-Control",
    "Content-Disposition", "acl", "file">>

\* the bytes io.Copy finds when it runs: the bytes getFileInfo read (part_000),
\* what the reopened file holds at that moment (attachment.go)
BytesAtCopy(g) == IF impl = "esa" THEN file[g].bytes ELSE data[g]

BodyShape(g) ==
  UploadsOf(g) > 0 =>
    LET parts == upload[g][1].parts
    IN  /\ Len(parts) = 9
        /\ \A i \in 1..9 : parts[i].name = PartNames[i]
        /\ \A i \in 1..8 : parts[i].kind = "field"
        /\ parts[9].kind = "file"
        /\ parts[9].filename = Base(path[g])
        /\ parts = w[g].parts
        /\ impl = "unnamed" => parts[9].content = data[g]

CopyTakesAllBytes(g) ==
  (pc[g] = "filepart" /\ pc'[g] = "copied") =>
    /\ Len(w'[g].parts) = 9
    /\ w'[g].parts[9].content = BytesAtCopy(g)

\* C12: the body of the upload POST is, in this order, the eight text parts
\* AWSAccessKeyId, signature, policy, key, Content-Type, Cache-Control,
\* Content-Disposition, acl and then one file part named file, the last part,
\* with the base name of the path as file name and all the bytes of the file.
C12_BodyParts ==
  /\ [](\A g \in Goroutines : BodyShape(g))
  /\ [][\A g \in Goroutines : CopyTakesAllBytes(g)]_vars

C12_Witness ==
  \E g \in Goroutines :
    /\ UploadsOf(g) = 1
    /\ path[g] = <<"d", "/", "b">>
    /\ upload[g][1].parts[9].filename = <<"b">>
    /\ upload[g][1].parts[9].content = <<104>>
    /\ upload[g][1].parts[1].value = "AKIA"

\* ------------------------------------- the policy response, passed through
ValueSent(g, name) ==
  LET parts == upload[g][1].parts
      i == CHOOSE j \in 1..Len(parts) : parts[j].kind = "field" /\ parts[j].name = name
  IN  parts[i].value

PassedThrough(g) ==
  UploadsOf(g) > 0 =>
    /\ upload[g][1].endpoint = issued[g].attachment.endpoint
    /\ ValueSent(g, "AWSAccessKeyId") = issued[g].form.AWSAccessKeyId
    /\ ValueSent(g, "signature") = issued[g].form.signature
    /\ ValueSent(g, "policy") = issued[g].form.policy
    /\ ValueSent(g, "key") = issued[g].form.key
    /\ ValueSent(g, "Content-Type") = issued[g].form.ContentType
    /\ ValueSent(g, "Cache-Control") = issued[g].form.CacheControl
    /\ ValueSent(g, "Content-Disposition") = issued[g].form.ContentDisposition
    /\ ValueSent(g, "acl") = issued[g].form.acl

\* C13: the upload POST goes to exactly the endpoint of the policy response,
\* and each of the eight text fields has the value of the form field of that
\* name in the policy response, empty strings included: nothing is validated
\* or altered on the way.
C13_PolicyPassedThrough == \A g \in Goroutines : PassedThrough(g)

C13_Witness ==
  \E g \in Goroutines :
    /\ UploadsOf(g) = 1
    /\ upload[g][1].endpoint = ""
    /\ issued[g].attachment.endpoint = ""
    /\ issued[g].form.ContentType = ""
    /\ ValueSent(g, "Content-Type") = ""
    /\ ValueSent(g, "acl") = ""

\* ------------------------------------------------ what a call holds open
\* C14: every file handle a call opens is released before the call returns, on
\* every exit path: once getFileInfo has returned (with values, or with the
\* error of os.Open or of ReadAll) its handle is closed, and once
\* UploadAttachmentFile has returned (with the URL or with the error of any
\* step) no handle of the call is open.
C14_HandlesReleased ==
  \A g \in Goroutines :
    /\ pc[g] \notin {"opened"} => "getFileInfo" \notin handles[g]
    /\ pc[g] \in {"idle"} \cup Terminal => handles[g] = {}

C14_Witness ==
  \E g \in Goroutines :
    /\ impl = "esa"
    /\ pc[g] = "failed"
    /\ failedAt[g] = "status"
    /\ FileWasRead(g)
    /\ handles[g] = {}

C14_ReleasedAfterReadFailure ==
  \E g \in Goroutines : pc[g] = "failed" /\ failedAt[g] = "read" /\ handles[g] = {}

\* C15: whenever the upload POST yielded a response, its body is consumed and
\* released (closed) by the time UploadAttachmentFile returns, for status 204
\* and for any other status.
C15_BodyConsumedAndReleased ==
  \A g \in Goroutines :
    (Returned(g) /\ Answered(g)) => (res[g].body = "closed" /\ ~res[g].unread)

\* the half of it the code keeps: the body is closed on every return
C15_BodyReleased ==
  \A g \in Goroutines : (Returned(g) /\ Answered(g)) => res[g].body = "closed"

\* a response with a body, closed without having been read
C15_ClosedUnread ==
  \E g \in Goroutines :
    /\ pc[g] = "failed"
    /\ res[g].status = 403
    /\ res[g].body = "closed"
    /\ res[g].unread

C15_ReleasedOnNoContent ==
  \E g \in Goroutines :
    pc[g] = "done" /\ res[g].status = StatusNoContent /\ res[g].body = "closed"

\* ------------------------------------------- the end of the multipart body
\* C17: when the upload POST is issued the multipart writer has been closed
\* already, so the body sent ends with the closing boundary after the file
\* part; the writer is never closed only after the POST was sent.
C17_ClosedBeforePost ==
  \A g \in Goroutines : \A i \in 1..UploadsOf(g) : upload[g][i].closed

C17_HoldsClosingBeforePost ==
  \A g \in Goroutines :
    impl = "esa" => \A i \in 1..UploadsOf(g) : upload[g][i].closed

C17_ClosedAfterPost ==
  \E g \in Goroutines :
    /\ impl = "unnamed"
    /\ Returned(g)
    /\ UploadsOf(g) = 1
    /\ ~upload[g][1].closed
    /\ w[g].closed

\* --------------------------------------------------- the name of the file
NameSent(g) == FormValueOf(policyReq[g][1].body, "name")

HasSeparator(name) == \E i \in 1..Len(name) : name[i] = "/"

\* C16: for every path of a readable file, the name sent in the policy request
\* has no directory in it (no path separator), and it is the file name given
\* to the file part of the upload POST of the same call.
C16_NameIsBaseName ==
  \A g \in Goroutines :
    /\ PolicyRequestsOf(g) > 0 => ~HasSeparator(NameSent(g))
    /\ UploadsOf(g) > 0 => FilePartOf(upload[g][1].parts).filename = NameSent(g)

C16_Witness ==
  \E g \in Goroutines :
    /\ path[g] = <<"d", "/", "/", "b">>
    /\ UploadsOf(g) = 1
    /\ NameSent(g) = <<"b">>
    /\ FilePartOf(upload[g][1].parts).filename = <<"b">>

\* ------------------------------------------------------ concurrent calls
\* everything a call of g reads or writes: its arguments, locals and results,
\* its file, and its requests and responses on the wire
Local(g) ==
  << pc[g], ncalls[g], team[g], path[g], file[g], handles[g], data[g], values[g],
     policy[g], w[g], res[g], result[g], err[g], failedAt[g], policyReq[g],
     issued[g], upload[g] >>

\* a step of one call leaves everything of the other calls as it was
NoCrossWrites ==
  \A g, h \in Goroutines :
    (g # h /\ pc'[g] # pc[g]) => Local(h)' = Local(h)

\* requests of g carry what g read and what the policy endpoint answered to g
OwnRequests(g) ==
  /\ PolicyRequestsOf(g) > 0 =>
       policyReq[g][1] = PolicyRequest(team[g], FileInfoValues(path[g], data[g]))
  /\ UploadsOf(g) > 0 =>
       /\ upload[g][1].endpoint = issued[g].attachment.endpoint
       /\ \A i \in 1..8 : upload[g][1].parts[i] = WriteFields(issued[g].form)[i]
       /\ KeyOfBody(upload[g][1].parts) = issued[g].form.key
       /\ upload[g][1].parts[9].filename = Base(path[g])
       /\ upload[g][1].parts[9].content = file[g].bytes

\* what the call returns alone, given the answers it got
OwnResult(g) ==
  Returned(g) =>
    /\ result[g] = IF failedAt[g] = "none" THEN issued[g].attachment.url ELSE ""
    /\ (err[g] = Nil) = (failedAt[g] = "none")
    /\ failedAt[g] = "none" => res[g].status = StatusNoContent
    /\ failedAt[g] = "status" => err[g] = ErrStatus(impl, res[g].status)
    /\ Has(err[g], "path") => err[g].path = path[g]
    /\ Has(err[g], "values") => err[g].values = values[g]
    /\ Has(err[g], "endpoint") => err[g].endpoint = issued[g].attachment.endpoint

\* the two uploads never carry the same policy
OwnKeys ==
  \A g, h \in Goroutines :
    (g # h /\ UploadsOf(g) > 0 /\ UploadsOf(h) > 0) =>
      KeyOfBody(upload[g][1].parts) # KeyOfBody(upload[h][1].parts)

\* C11: two calls for different files running concurrently on one
\* AttachmentService do not interfere, however their steps interleave: the
\* upload POST of each carries the policy fields, the endpoint, the file name and
\* the content of its own call only, and each returns what it returns alone
\* given the same answers of the servers.
C11_NoInterference ==
  /\ [](OwnKeys /\ \A g \in Goroutines : OwnRequests(g) /\ OwnResult(g))
  /\ [][NoCrossWrites]_vars

C11_Witness ==
  /\ pc = <<"done", "failed">>
  /\ failedAt[2] = "status"
  /\ path[1] # path[2]
  /\ issued[1].attachment.url # ""
  /\ result[1] = issued[1].attachment.url
  /\ issued[2].form.key = "key-1"
  /\ issued[1].form.key = "key-2"
  /\ issued[1].form.acl # issued[2].form.acl
  /\ upload[1][1].parts[9].content # upload[2][1].parts[9].content

\* ------------------------------------------------------------ termination
\* C18: if the file read and the two network calls return, with a result or
\* with an error, every call of UploadAttachmentFile ends in Done (the URL is
\* returned) or in Failed (an error is returned): it does not block or loop in
\* a state in between.
C18_Terminates ==
  \A g \in Goroutines : (pc[g] = "start") ~> (pc[g] \in Terminal)

C18_Witness ==
  \E g \in Goroutines :
    /\ pc[g] = "failed"
    /\ failedAt[g] = "status"
    /\ res[g].status = 403
    /\ UploadsOf(g) = 1

C18_EndsInDone ==
  \E g \in Goroutines : pc[g] = "done" /\ result[g] # "" /\ err[g] = Nil

====
